---- MODULE Spec2Model ----
(***************************************************************************)
(* Model of discord/components_v2.py: the node classes of the V2 layout    *)
(* tree (Section, TextDisplay, Container, Thumbnail, MediaGalleryItem,     *)
(* MediaGallery, File, Separator), their constructors and their to_dict.   *)
(*                                                                         *)
(* The state is the set of objects the caller has built (heap) and the     *)
(* outcome of the call that has just ended (last): the caller makes one    *)
(* call at a time and takes its outcome before the next.  Python objects   *)
(* are referred to by their index in heap; a constructor stores the        *)
(* references it is given (no copy), so a list passed as components/items  *)
(* stays the caller's list: the caller's in-place changes to it are        *)
(* changes of the node's list; mutations counts the assignments and        *)
(* in-place changes the caller has made to objects after their             *)
(* construction.  threads holds the calls of to_dict that are under way   *)
(* at the same time, each with its own stack of frames.                    *)
(*                                                                         *)
(* The model starts with the module loaded: the class statements have run  *)
(* and the decorator of MediaGalleryItem has produced a dataclass.  Names  *)
(* looked up while a method body runs are resolved in ModuleGlobals, the   *)
(* names the module's import and class statements bind.                    *)
(***************************************************************************)
EXTENDS Integers, Sequences, FiniteSets, TLC

VARIABLES heap, last, mutations, threads

vars == <<heap, last, mutations, threads>>

-----------------------------------------------------------------------------
(* Bounds of the model *)

\* objects the caller builds
MaxNodes == 3
\* longest list literal the caller passes is MaxGalleryItems + ExtraLen
ExtraLen == 1
\* objects the caller builds, and changes it makes to them, where it also
\* assigns to attributes and changes lists in place
MutNodes == 2
MaxMutations == 1
\* objects the caller builds where calls of to_dict run at the same time
ConcNodes == 2

-----------------------------------------------------------------------------
(* Program constants *)

SMALL == 1
LARGE == 2
MaxSectionComponents == 3
MaxGalleryItems == 10
MaxAccentColor == 16777215

-----------------------------------------------------------------------------
(* Python values *)

\* Optional[...]: None, or the value
None == <<>>
Some(v) == <<v>>
IsNone(o) == Len(o) = 0

\* an int and a str argument, kept apart as Python keeps them apart
PyInt(n) == <<"int", n>>
PyStr(s) == <<"str", s>>

\* a dict literal without keys; the attributes of an object before any assignment
Empty == [k \in {} |-> 0]

\* payload[key] = val, when cond
Opt(cond, key, val) == IF cond THEN key :> val ELSE Empty

\* Reference 0 stands for a value that is no component and has no to_dict
\* (a str, a dict such as {"url": ...}); 1..Len(h) are the objects built.
Refs(h) == 0..Len(h)

KindOf(h, r) == IF r \in 1..Len(h) THEN h[r].kind ELSE "object"

\* isinstance(obj, classes)
isinstance(h, r, classes) == KindOf(h, r) \in classes

\* The names bound in the module's namespace when a method runs: the imports
\* and the classes the module defines.
ModuleGlobals ==
    {"ClassVar", "List", "Literal", "Optional", "TYPE_CHECKING", "Tuple", "Union",
     "Dict", "Any", "Component", "Button", "ComponentType", "MISSING",
     "Section", "TextDisplay", "Container", "Thumbnail", "MediaGalleryItem",
     "MediaGallery", "File", "SeparatorSpacing", "Separator"}

\* ComponentType.<kind>.value
ComponentType(kind) ==
    CASE kind = "ActionRow" -> 1
      [] kind = "Button" -> 2
      [] kind = "Section" -> 9
      [] kind = "TextDisplay" -> 10
      [] kind = "Thumbnail" -> 11
      [] kind = "MediaGallery" -> 12
      [] kind = "File" -> 13
      [] kind = "Separator" -> 14
      [] kind = "Container" -> 17

-----------------------------------------------------------------------------
(* Constructors.  A call of __init__ ends by raising, with the attributes  *)
(* assigned to self so far, or by returning with all of them assigned.     *)

Raise(exc, msg, self) == [exc |-> exc, msg |-> msg, self |-> self]
Return(self) == [exc |-> "", msg |-> "", self |-> self]

\* Section.__init__ without the check of the components' class
Section_init_anychild(h, components, accessory, id) ==
    IF Len(components) = 0
    THEN Raise("ValueError", "Section must contain at least one text component", Empty)
    ELSE IF Len(components) > MaxSectionComponents
    THEN Raise("ValueError", "Section can only contain up to 3 text components", Empty)
    ELSE IF ~IsNone(accessory) /\ ~isinstance(h, accessory[1], {"Button", "Thumbnail"})
    THEN Raise("TypeError", "Accessory must be either a Button or Thumbnail instance", Empty)
    ELSE Return([components |-> components, accessory |-> accessory, id |-> id])

\* Section.__init__ without the check of the accessory's class
Section_init_anyaccessory(h, components, accessory, id) ==
    IF Len(components) = 0
    THEN Raise("ValueError", "Section must contain at least one text component", Empty)
    ELSE IF Len(components) > MaxSectionComponents
    THEN Raise("ValueError", "Section can only contain up to 3 text components", Empty)
    ELSE IF ~ \A i \in 1..Len(components) : isinstance(h, components[i], {"TextDisplay"})
    THEN Raise("TypeError", "All components must be TextDisplay instances", Empty)
    ELSE Return([components |-> components, accessory |-> accessory, id |-> id])

\* Section.__init__ with the upper bound off by one
Section_init_offbyone(h, components, accessory, id) ==
    IF Len(components) = 0
    THEN Raise("ValueError", "Section must contain at least one text component", Empty)
    ELSE IF Len(components) >= MaxSectionComponents
    THEN Raise("ValueError", "Section can only contain up to 3 text components", Empty)
    ELSE IF ~ \A i \in 1..Len(components) : isinstance(h, components[i], {"TextDisplay"})
    THEN Raise("TypeError", "All components must be TextDisplay instances", Empty)
    ELSE IF ~IsNone(accessory) /\ ~isinstance(h, accessory[1], {"Button", "Thumbnail"})
    THEN Raise("TypeError", "Accessory must be either a Button or Thumbnail instance", Empty)
    ELSE Return([components |-> components, accessory |-> accessory, id |-> id])

\* Section.__init__ with the class of the accessory compared by equality of
\* one class only
Section_init_thumbnailonly(h, components, accessory, id) ==
    IF Len(components) = 0
    THEN Raise("ValueError", "Section must contain at least one text component", Empty)
    ELSE IF Len(components) > MaxSectionComponents
    THEN Raise("ValueError", "Section can only contain up to 3 text components", Empty)
    ELSE IF ~ \A i \in 1..Len(components) : isinstance(h, components[i], {"TextDisplay"})
    THEN Raise("TypeError", "All components must be TextDisplay instances", Empty)
    ELSE IF ~IsNone(accessory) /\ ~isinstance(h, accessory[1], {"Thumbnail"})
    THEN Raise("TypeError", "Accessory must be either a Button or Thumbnail instance", Empty)
    ELSE Return([components |-> components, accessory |-> accessory, id |-> id])

\* Section.__init__ with components assigned before the accessory is checked
Section_init_assignfirst(h, components, accessory, id) ==
    IF Len(components) = 0
    THEN Raise("ValueError", "Section must contain at least one text component", Empty)
    ELSE IF Len(components) > MaxSectionComponents
    THEN Raise("ValueError", "Section can only contain up to 3 text components", Empty)
    ELSE IF ~ \A i \in 1..Len(components) : isinstance(h, components[i], {"TextDisplay"})
    THEN Raise("TypeError", "All components must be TextDisplay instances", Empty)
    ELSE IF ~IsNone(accessory) /\ ~isinstance(h, accessory[1], {"Button", "Thumbnail"})
    THEN Raise("TypeError", "Accessory must be either a Button or Thumbnail instance",
               [components |-> components])
    ELSE Return([components |-> components, accessory |-> accessory, id |-> id])

Section_init(h, components, accessory, id) ==
    IF Len(components) = 0
    THEN Raise("ValueError", "Section must contain at least one text component", Empty)
    ELSE IF Len(components) > MaxSectionComponents
    THEN Raise("ValueError", "Section can only contain up to 3 text components", Empty)
    ELSE IF ~ \A i \in 1..Len(components) : isinstance(h, components[i], {"TextDisplay"})
    THEN Raise("TypeError", "All components must be TextDisplay instances", Empty)
    ELSE IF ~IsNone(accessory) /\ ~isinstance(h, accessory[1], {"Button", "Thumbnail"})
    THEN Raise("TypeError", "Accessory must be either a Button or Thumbnail instance", Empty)
    ELSE Return([components |-> components, accessory |-> accessory, id |-> id])

TextDisplay_init(content, id) ==
    Return([content |-> content, id |-> id])

\* valid_types with Button in the place of ActionRow
ContainerValidTypes_button ==
    <<"Button", "TextDisplay", "Section", "MediaGallery", "Separator", "File">>

\* the names of the tuple valid_types, in the order they are looked up
ContainerValidTypes ==
    <<"ActionRow", "TextDisplay", "Section", "MediaGallery", "Separator", "File">>

Container_init(h, components, accent_color, spoiler, id) ==
    LET unbound == {i \in 1..Len(ContainerValidTypes) :
                        ContainerValidTypes[i] \notin ModuleGlobals}
        valid_types == {ContainerValidTypes[i] : i \in 1..Len(ContainerValidTypes)}
    IN
    IF Len(components) = 0
    THEN Raise("ValueError", "Container must contain at least one component", Empty)
    ELSE IF unbound # {}
    THEN Raise("NameError", ContainerValidTypes[CHOOSE i \in unbound : \A j \in unbound : i <= j], Empty)
    ELSE IF ~ \A i \in 1..Len(components) : isinstance(h, components[i], valid_types)
    THEN Raise("TypeError", "All components must be one of: ActionRow, TextDisplay, Section, MediaGallery, Separator, or File", Empty)
    ELSE IF ~IsNone(accent_color) /\ ~(0 <= accent_color[1] /\ accent_color[1] <= MaxAccentColor)
    THEN Raise("ValueError", "accent_color must be between 0x000000 and 0xFFFFFF", Empty)
    ELSE Return([components |-> components, accent_color |-> accent_color,
                 spoiler |-> spoiler, id |-> id])

Thumbnail_init(media_url, description, spoiler, id) ==
    Return([media_url |-> media_url, description |-> description,
            spoiler |-> spoiler, id |-> id])

MediaGalleryItem_init(media_url, description, spoiler) ==
    Return([media_url |-> media_url, description |-> description, spoiler |-> spoiler])

\* MediaGallery.__init__ with the upper bound off by one
MediaGallery_init_offbyone(h, items, id) ==
    IF Len(items) = 0
    THEN Raise("ValueError", "MediaGallery must contain at least one item", Empty)
    ELSE IF Len(items) > MaxGalleryItems + 1
    THEN Raise("ValueError", "MediaGallery can only contain up to 10 items", Empty)
    ELSE IF ~ \A i \in 1..Len(items) : isinstance(h, items[i], {"MediaGalleryItem"})
    THEN Raise("TypeError", "All items must be MediaGalleryItem instances", Empty)
    ELSE Return([items |-> items, id |-> id])

MediaGallery_init(h, items, id) ==
    IF Len(items) = 0
    THEN Raise("ValueError", "MediaGallery must contain at least one item", Empty)
    ELSE IF Len(items) > MaxGalleryItems
    THEN Raise("ValueError", "MediaGallery can only contain up to 10 items", Empty)
    ELSE IF ~ \A i \in 1..Len(items) : isinstance(h, items[i], {"MediaGalleryItem"})
    THEN Raise("TypeError", "All items must be MediaGalleryItem instances", Empty)
    ELSE Return([items |-> items, id |-> id])

File_init(filename, spoiler, id) ==
    Return([filename |-> filename, spoiler |-> spoiler, id |-> id])

Separator_init(divider, spacing, id) ==
    IF spacing \notin {PyInt(SMALL), PyInt(LARGE)}
    THEN Raise("ValueError", "spacing must be either SeparatorSpacing.SMALL or SeparatorSpacing.LARGE", Empty)
    ELSE Return([divider |-> divider, spacing |-> spacing, id |-> id])

-----------------------------------------------------------------------------
(* Serialization.  A call of to_dict ends with a value or with an error.   *)

Value(v) == [exc |-> "", val |-> v]
Error(exc) == [exc |-> exc, val |-> Empty]

\* the first error among the results of a comprehension, in list order
FirstError(rs) ==
    LET bad == {i \in 1..Len(rs) : rs[i].exc # ""}
    IN IF bad = {} THEN "" ELSE rs[CHOOSE i \in bad : \A j \in bad : i <= j].exc

\* the comprehension with its results in reverse order
Values_reversed(rs) == [i \in 1..Len(rs) |-> rs[Len(rs) + 1 - i].val]

Values(rs) == [i \in 1..Len(rs) |-> rs[i].val]

TextDisplay_to_dict(self) ==
    [type |-> ComponentType("TextDisplay"), content |-> self.content]
        @@ Opt(~IsNone(self.id), "id", self.id[1])

Thumbnail_to_dict(self) ==
    [type |-> ComponentType("Thumbnail"), media |-> [url |-> self.media_url]]
        @@ Opt(~IsNone(self.description), "description", self.description[1])
        @@ Opt(self.spoiler, "spoiler", TRUE)
        @@ Opt(~IsNone(self.id), "id", self.id[1])

MediaGalleryItem_to_dict(self) ==
    [media |-> [url |-> self.media_url]]
        @@ Opt(~IsNone(self.description), "description", self.description[1])
        @@ Opt(self.spoiler, "spoiler", TRUE)

\* f'attachment://{self.filename}': the prefix, then the filename
File_to_dict(self) ==
    [type |-> ComponentType("File"), file |-> [url |-> <<"attachment://", self.filename>>]]
        @@ Opt(self.spoiler, "spoiler", TRUE)
        @@ Opt(~IsNone(self.id), "id", self.id[1])

\* Separator.to_dict with the id tested for truth instead of for None
Separator_to_dict_truthy(self) ==
    [type |-> ComponentType("Separator")]
        @@ Opt(~self.divider, "divider", FALSE)
        @@ Opt(self.spacing # PyInt(SMALL), "spacing", self.spacing)
        @@ Opt(~IsNone(self.id) /\ self.id[1] # 0, "id", self.id[1])

Separator_to_dict(self) ==
    [type |-> ComponentType("Separator")]
        @@ Opt(~self.divider, "divider", FALSE)
        @@ Opt(self.spacing # PyInt(SMALL), "spacing", self.spacing)
        @@ Opt(~IsNone(self.id), "id", self.id[1])

\* components and accessory are the results of the children's to_dict
Section_to_dict(self, components, accessory) ==
    IF FirstError(components) # "" THEN Error(FirstError(components))
    ELSE IF ~IsNone(self.accessory) /\ accessory.exc # "" THEN Error(accessory.exc)
    ELSE Value([type |-> ComponentType("Section"), components |-> Values(components)]
                 @@ Opt(~IsNone(self.accessory), "accessory", accessory.val)
                 @@ Opt(~IsNone(self.id), "id", self.id[1]))

Container_to_dict(self, components) ==
    IF FirstError(components) # "" THEN Error(FirstError(components))
    ELSE Value([type |-> ComponentType("Container"), components |-> Values(components)]
                 @@ Opt(~IsNone(self.accent_color), "accent_color", self.accent_color[1])
                 @@ Opt(self.spoiler, "spoiler", TRUE)
                 @@ Opt(~IsNone(self.id), "id", self.id[1]))

MediaGallery_to_dict(self, items) ==
    IF FirstError(items) # "" THEN Error(FirstError(items))
    ELSE Value([type |-> ComponentType("MediaGallery"), items |-> Values(items)]
                 @@ Opt(~IsNone(self.id), "id", self.id[1]))

\* Button and ActionRow are the collaborators' classes: their payload is
\* known here by its type tag only.
External_to_dict(kind) == [type |-> ComponentType(kind)]

\* A chain of calls deeper than the number of objects runs round a cycle,
\* which the interpreter ends with RecursionError.
RecursionLimit(h) == Len(h) + 1

RECURSIVE to_dict(_, _, _)
to_dict(h, r, depth) ==
    IF depth = 0 THEN Error("RecursionError")
    ELSE IF r \notin 1..Len(h) THEN Error("AttributeError")
    ELSE LET kind == h[r].kind
             self == h[r].attrs
             each(list) == [i \in 1..Len(list) |-> to_dict(h, list[i], depth - 1)]
         IN CASE kind = "TextDisplay" -> Value(TextDisplay_to_dict(self))
              [] kind = "Thumbnail" -> Value(Thumbnail_to_dict(self))
              [] kind = "MediaGalleryItem" -> Value(MediaGalleryItem_to_dict(self))
              [] kind = "File" -> Value(File_to_dict(self))
              [] kind = "Separator" -> Value(Separator_to_dict(self))
              [] kind = "Section" ->
                   Section_to_dict(self, each(self.components),
                       IF IsNone(self.accessory) THEN Error("")
                       ELSE to_dict(h, self.accessory[1], depth - 1))
              [] kind = "Container" -> Container_to_dict(self, each(self.components))
              [] kind = "MediaGallery" -> MediaGallery_to_dict(self, each(self.items))
              [] OTHER -> Value(External_to_dict(kind))

-----------------------------------------------------------------------------
(* Arguments the caller passes.  Optional arguments are either all left at *)
(* their defaults or all given with a value that is not the default.       *)

Bools == {FALSE, TRUE}
Contents == {"hi"}
Urls == {"https://example.com/image.png"}
Filenames == {"document.pdf"}
Colors == {None, Some(-1), Some(0), Some(MaxAccentColor), Some(MaxAccentColor + 1)}
Spacings == {PyInt(0), PyInt(SMALL), PyInt(LARGE), PyInt(3), PyStr("medium")}

IdArg(given) == IF given THEN Some(0) ELSE None
DescriptionArg(given) == IF given THEN Some("alt") ELSE None

Repeat(x, n) == [i \in 1..n |-> x]

\* list literals over the objects built so far: [x] * n for n up to maxlen,
\* and [x, y]
ListArgs(h, maxlen) ==
    {Repeat(x, n) : x \in Refs(h), n \in 0..maxlen}
        \cup {<<x, y>> : x \in Refs(h), y \in Refs(h)}

SectionLists(h) == ListArgs(h, MaxSectionComponents + ExtraLen)
GalleryLists(h) == ListArgs(h, MaxGalleryItems + ExtraLen)
ContainerLists(h) == ListArgs(h, 1 + ExtraLen)

Accessories(h) == {None} \cup {Some(r) : r \in Refs(h)}

-----------------------------------------------------------------------------
(* The calls *)

Classes == {"TextDisplay", "Thumbnail", "MediaGalleryItem", "File", "Separator",
            "Section", "MediaGallery", "Container"}

\* no call has ended whose outcome the caller has yet to take
Idle == [op |-> "idle", exc |-> "", msg |-> "", self |-> Empty, ref |-> 0, ret |-> Empty]

\* the calls of to_dict that may be under way at the same time
Threads == {1, 2}

\* no call of to_dict under way
NoCall ==
    [state |-> "idle", root |-> 0, stack |-> <<>>, result |-> Value(Empty),
     overlapped |-> FALSE]

Init ==
    /\ heap = <<>>
    /\ last = Idle
    /\ mutations = 0
    /\ threads = [t \in Threads |-> NoCall]

\* the caller is between two calls and has objects left to build
CanBuild == last = Idle /\ Len(heap) < MaxNodes

\* cls(...): __init__ runs on a fresh object, which the caller gets when
\* __init__ returns and nobody gets when it raises.
Construct(cls, res) ==
    /\ heap' = IF res.exc = "" THEN Append(heap, [kind |-> cls, attrs |-> res.self])
               ELSE heap
    /\ last' = [op |-> cls, exc |-> res.exc, msg |-> res.msg, self |-> res.self,
                ref |-> IF res.exc = "" THEN Len(heap) + 1 ELSE 0, ret |-> Empty]
    /\ UNCHANGED <<mutations, threads>>

NewTextDisplay ==
    CanBuild /\ \E content \in Contents, given \in Bools :
        Construct("TextDisplay", TextDisplay_init(content, IdArg(given)))

NewThumbnail ==
    CanBuild /\ \E media_url \in Urls, given \in Bools :
        Construct("Thumbnail",
                  Thumbnail_init(media_url, DescriptionArg(given), given, IdArg(given)))

NewMediaGalleryItem ==
    CanBuild /\ \E media_url \in Urls, given \in Bools :
        Construct("MediaGalleryItem",
                  MediaGalleryItem_init(media_url, DescriptionArg(given), given))

NewFile ==
    CanBuild /\ \E filename \in Filenames, given \in Bools :
        Construct("File", File_init(filename, given, IdArg(given)))

NewSeparator ==
    CanBuild /\ \E spacing \in Spacings, given \in Bools :
        Construct("Separator", Separator_init(~given, spacing, IdArg(given)))

\* a Button or an ActionRow, built by the collaborators' code
NewExternal ==
    CanBuild /\ \E cls \in {"Button", "ActionRow"} : Construct(cls, Return(Empty))

NewSection ==
    CanBuild /\ \E components \in SectionLists(heap), accessory \in Accessories(heap), given \in Bools :
        Construct("Section", Section_init(heap, components, accessory, IdArg(given)))

NewMediaGallery ==
    CanBuild /\ \E items \in GalleryLists(heap), given \in Bools :
        Construct("MediaGallery", MediaGallery_init(heap, items, IdArg(given)))

NewContainer ==
    CanBuild /\ \E components \in ContainerLists(heap), accent_color \in Colors, given \in Bools :
        Construct("Container",
                  Container_init(heap, components, accent_color, given, IdArg(given)))

\* obj.to_dict()
ToDict ==
    last = Idle /\ \E r \in 1..Len(heap) :
        LET res == to_dict(heap, r, RecursionLimit(heap))
        IN /\ last' = [op |-> "to_dict", exc |-> res.exc, msg |-> "", self |-> Empty,
                       ref |-> r, ret |-> res.val]
           /\ UNCHANGED <<heap, mutations, threads>>

\* the caller takes the outcome: the object, the payload or the exception
TakeResult ==
    /\ last # Idle
    /\ last' = Idle
    /\ UNCHANGED <<heap, mutations, threads>>

Next ==
    \/ TakeResult
    \/ NewTextDisplay
    \/ NewThumbnail
    \/ NewMediaGalleryItem
    \/ NewFile
    \/ NewSeparator
    \/ NewExternal
    \/ NewSection
    \/ NewMediaGallery
    \/ NewContainer
    \/ ToDict

Spec == Init /\ [][Next]_vars

-----------------------------------------------------------------------------
(* What the classes leave open to the caller after construction: the       *)
(* attributes are plain slots and the lists are the caller's own.          *)

\* the attribute of a class that holds a list
ListAttr(cls) ==
    CASE cls \in {"Section", "Container"} -> "components"
      [] cls = "MediaGallery" -> "items"
      [] OTHER -> ""

CanMutate == last = Idle /\ mutations < MaxMutations

Mutate(r, name, value) ==
    /\ heap' = [heap EXCEPT ![r].attrs[name] = value]
    /\ mutations' = mutations + 1
    /\ UNCHANGED <<last, threads>>

\* the list passed as components/items: lst.append(x)
ListAppend ==
    CanMutate /\ \E r \in 1..Len(heap), x \in Refs(heap) :
        LET name == ListAttr(heap[r].kind)
        IN /\ name # ""
           /\ Mutate(r, name, Append(heap[r].attrs[name], x))

\* the list passed as components/items: lst.pop()
ListPop ==
    CanMutate /\ \E r \in 1..Len(heap) :
        LET name == ListAttr(heap[r].kind)
        IN /\ name # ""
           /\ Len(heap[r].attrs[name]) > 0
           /\ Mutate(r, name, SubSeq(heap[r].attrs[name], 1, Len(heap[r].attrs[name]) - 1))

\* the values the caller assigns to an attribute
AttrValues(h, name) ==
    CASE name = "accessory" -> Accessories(h)
      [] name = "spacing" -> Spacings
      [] name = "accent_color" -> Colors
      [] name \in {"components", "items"} -> ListArgs(h, 1)
      [] OTHER -> {}

\* obj.name = value
SetAttr ==
    CanMutate /\ \E r \in 1..Len(heap) :
        \E name \in DOMAIN heap[r].attrs :
            \E value \in AttrValues(heap, name) :
                /\ value # heap[r].attrs[name]
                /\ Mutate(r, name, value)

NextMut ==
    \/ TakeResult
    \/ Len(heap) < MutNodes /\ NewTextDisplay
    \/ Len(heap) < MutNodes /\ NewThumbnail
    \/ Len(heap) < MutNodes /\ NewMediaGalleryItem
    \/ Len(heap) < MutNodes /\ NewFile
    \/ Len(heap) < MutNodes /\ NewSeparator
    \/ Len(heap) < MutNodes /\ NewExternal
    \/ Len(heap) < MutNodes /\ NewSection
    \/ Len(heap) < MutNodes /\ NewMediaGallery
    \/ Len(heap) < MutNodes /\ NewContainer
    \/ ToDict
    \/ ListAppend
    \/ ListPop
    \/ SetAttr

SpecMut == Init /\ [][NextMut]_vars

-----------------------------------------------------------------------------
(* The tree *)

Nodes == 1..Len(heap)

Elements(list) == {list[i] : i \in 1..Len(list)}

\* the nodes held by a composite node: its components and its accessory
Children(h, r) ==
    IF r \notin 1..Len(h) THEN {}
    ELSE LET o == h[r]
         IN (CASE o.kind = "Section" ->
                    Elements(o.attrs.components)
                        \cup (IF IsNone(o.attrs.accessory) THEN {} ELSE {o.attrs.accessory[1]})
               [] o.kind = "Container" -> Elements(o.attrs.components)
               [] OTHER -> {})
            \cap (1..Len(h))

RECURSIVE ReachFrom(_, _, _)
ReachFrom(h, S, n) ==
    IF n = 0 THEN S
    ELSE ReachFrom(h, S \cup UNION {Children(h, c) : c \in S}, n - 1)

Descendants(h, r) == ReachFrom(h, Children(h, r), Len(h))

Acyclic == \A r \in Nodes : r \notin Descendants(heap, r)

-----------------------------------------------------------------------------
(* Claims *)

\* C1: to_dict never fails for a node that passed construction-time
\* validation: whatever node the caller has built by constructor calls, and
\* whatever node is reached from it, its to_dict ends with a value and with
\* no error.
SerializeNeverFails == last.op = "to_dict" => last.exc = ""

\* a Section with an accessory has been serialized, children included
SerializeNeverFailsWitness ==
    /\ last.op = "to_dict"
    /\ last.exc = ""
    /\ heap[last.ref].kind = "Section"
    /\ ~IsNone(heap[last.ref].attrs.accessory)
    /\ "accessory" \in DOMAIN last.ret

\* the structural constraints of the node classes
SectionOk(h, a) ==
    /\ Len(a.components) \in 1..MaxSectionComponents
    /\ \A i \in 1..Len(a.components) : KindOf(h, a.components[i]) = "TextDisplay"
    /\ IsNone(a.accessory) \/ KindOf(h, a.accessory[1]) \in {"Button", "Thumbnail"}

MediaGalleryOk(h, a) == Len(a.items) \in 1..MaxGalleryItems

ContainerOk(h, a) ==
    /\ Len(a.components) >= 1
    /\ \A i \in 1..Len(a.components) :
           KindOf(h, a.components[i])
               \in {"ActionRow", "TextDisplay", "Section", "MediaGallery", "Separator", "File"}
    /\ IsNone(a.accent_color) \/ a.accent_color[1] \in 0..MaxAccentColor

SeparatorOk(h, a) == a.spacing \in {PyInt(1), PyInt(2)}

NodeOk(h, r) ==
    CASE h[r].kind = "Section" -> SectionOk(h, h[r].attrs)
      [] h[r].kind = "MediaGallery" -> MediaGalleryOk(h, h[r].attrs)
      [] h[r].kind = "Container" -> ContainerOk(h, h[r].attrs)
      [] h[r].kind = "Separator" -> SeparatorOk(h, h[r].attrs)
      [] OTHER -> TRUE

\* C2 as stated: the structural invariants hold in every state, whatever
\* the caller does to a node after its construction (assignments to its
\* attributes, in-place changes of the list it was given).
InvariantsHoldForLifetime == \A r \in Nodes : NodeOk(heap, r)

\* C2 as amended: the structural invariants hold of every node as long as
\* the caller has only constructed and serialized; assignments and
\* in-place changes are not validated.
InvariantsHoldUntilMutated == mutations = 0 => \A r \in Nodes : NodeOk(heap, r)

\* a Section has been constructed and nothing was changed since
InvariantsHoldWitness ==
    /\ mutations = 0
    /\ last.op = "Section"
    /\ last.exc = ""
    /\ heap[last.ref].kind = "Section"

\* C3 as stated: no node is a child of two composite nodes or twice a child
\* of one, and no node is its own descendant.
ExclusiveOwnership ==
    /\ \A p \in Nodes, q \in Nodes :
           p # q => Children(heap, p) \cap Children(heap, q) = {}
    /\ \A p \in Nodes :
           heap[p].kind \in {"Section", "Container"} =>
               /\ \A i \in 1..Len(heap[p].attrs.components),
                     j \in 1..Len(heap[p].attrs.components) :
                      i # j => heap[p].attrs.components[i] # heap[p].attrs.components[j]
    /\ Acyclic

\* C3 as amended: children are not owned exclusively, but as long as the
\* caller only constructs and serializes, no node is its own descendant and
\* the children of a Section have no children of their own.
OwnershipAcyclic ==
    /\ Acyclic
    /\ \A p \in Nodes :
           heap[p].kind = "Section" => \A c \in Children(heap, p) : Children(heap, c) = {}

\* a Section that holds the same TextDisplay twice has been serialized
SharedChildWitness ==
    /\ last.op = "to_dict"
    /\ last.exc = ""
    /\ heap[last.ref].kind = "Section"
    /\ Len(heap[last.ref].attrs.components) = 2
    /\ heap[last.ref].attrs.components[1] = heap[last.ref].attrs.components[2]
    /\ Len(last.ret.components) = 2

-----------------------------------------------------------------------------
(* The error kinds of the specification, as the constructors raise them:   *)
(* a count out of bounds and a value out of range are a ValueError, a      *)
(* wrong class is a TypeError.                                             *)

ArityError(res) ==
    /\ res.exc = "ValueError"
    /\ res.msg \in {"Section must contain at least one text component",
                    "Section can only contain up to 3 text components",
                    "MediaGallery must contain at least one item",
                    "MediaGallery can only contain up to 10 items",
                    "Container must contain at least one component"}

TypeMismatchError(res) ==
    /\ res.exc = "TypeError"
    /\ res.msg \in {"All components must be TextDisplay instances",
                    "Accessory must be either a Button or Thumbnail instance",
                    "All items must be MediaGalleryItem instances",
                    "All components must be one of: ActionRow, TextDisplay, Section, MediaGallery, Separator, or File"}

RangeError(res) ==
    /\ res.exc = "ValueError"
    /\ res.msg \in {"accent_color must be between 0x000000 and 0xFFFFFF",
                    "spacing must be either SeparatorSpacing.SMALL or SeparatorSpacing.LARGE"}

AllOfKind(h, list, kinds) == \A i \in 1..Len(list) : KindOf(h, list[i]) \in kinds

\* C4: a Section with 0 or more than 3 components and a MediaGallery with 0
\* or more than 10 items are refused with an ArityError and no node comes
\* of the call; a Section with 1 to 3 TextDisplay components and a
\* MediaGallery with 1 to 10 MediaGalleryItem items are accepted.
CountBounds ==
    /\ CanBuild =>
         /\ \A components \in SectionLists(heap), accessory \in Accessories(heap),
               given \in Bools :
                LET res == Section_init(heap, components, accessory, IdArg(given))
                IN /\ (Len(components) = 0 \/ Len(components) > 3) => ArityError(res)
                   /\ (/\ Len(components) \in 1..3
                       /\ AllOfKind(heap, components, {"TextDisplay"})
                       /\ IsNone(accessory)) => res.exc = ""
         /\ \A items \in GalleryLists(heap), given \in Bools :
                LET res == MediaGallery_init(heap, items, IdArg(given))
                IN /\ (Len(items) = 0 \/ Len(items) > 10) => ArityError(res)
                   /\ (/\ Len(items) \in 1..10
                       /\ AllOfKind(heap, items, {"MediaGalleryItem"})) => res.exc = ""
    /\ (last.op \in {"Section", "MediaGallery"} /\ last.exc # "") => last.ref = 0
    /\ \A r \in Nodes :
           /\ heap[r].kind = "Section" => Len(heap[r].attrs.components) \in 1..3
           /\ heap[r].kind = "MediaGallery" => Len(heap[r].attrs.items) \in 1..10

\* a MediaGallery of 10 items exists and one of 11 items has been refused
CountBoundsWitness ==
    /\ last.op = "MediaGallery"
    /\ last.msg = "MediaGallery can only contain up to 10 items"
    /\ last.ref = 0
    /\ \E r \in Nodes : heap[r].kind = "MediaGallery" /\ Len(heap[r].attrs.items) = 10

\* C5: a Section with 1 to 3 components one of which is no TextDisplay, or
\* with an accessory that is neither a Button nor a Thumbnail, is refused
\* with a TypeMismatchError; with TextDisplay components only and no
\* accessory, a Button or a Thumbnail, it is accepted.
SectionTypeChecks ==
    CanBuild =>
        \A components \in SectionLists(heap), accessory \in Accessories(heap),
           given \in Bools :
            LET res == Section_init(heap, components, accessory, IdArg(given))
                accessoryOk == IsNone(accessory)
                                  \/ KindOf(heap, accessory[1]) \in {"Button", "Thumbnail"}
            IN Len(components) \in 1..3 =>
                 /\ ~AllOfKind(heap, components, {"TextDisplay"}) => TypeMismatchError(res)
                 /\ ~accessoryOk => TypeMismatchError(res)
                 /\ (AllOfKind(heap, components, {"TextDisplay"}) /\ accessoryOk)
                        => res.exc = ""

\* a call of Section with a component that is no TextDisplay has been
\* refused, a TextDisplay and a Button being there
SectionTypeChecksWitness ==
    /\ last.op = "Section"
    /\ last.exc = "TypeError"
    /\ last.msg = "All components must be TextDisplay instances"
    /\ \E r \in Nodes : heap[r].kind = "TextDisplay"
    /\ \E r \in Nodes : heap[r].kind = "Button"

Whitelisted(h, list) ==
    AllOfKind(h, list, {"ActionRow", "TextDisplay", "Section", "MediaGallery",
                        "Separator", "File"})

ColorOk(accent_color) == IsNone(accent_color) \/ accent_color[1] \in 0..16777215

\* C6: the construction of a Container succeeds exactly when its list is
\* not empty, every element is of a whitelisted class and accent_color is
\* absent or in range; an element of another class is refused with a
\* TypeMismatchError.  The elements are objects built before.
ContainerAcceptsWhitelist ==
    CanBuild =>
        \A components \in ContainerLists(heap), accent_color \in Colors, given \in Bools :
            LET res == Container_init(heap, components, accent_color, given, IdArg(given))
            IN (\A i \in 1..Len(components) : components[i] \in Nodes) =>
               /\ res.exc = "" <=> (/\ Len(components) >= 1
                                    /\ Whitelisted(heap, components)
                                    /\ ColorOk(accent_color))
               /\ (Len(components) >= 1 /\ ~Whitelisted(heap, components))
                      => TypeMismatchError(res)

RangeChecks ==
    CanBuild =>
        /\ \A components \in ContainerLists(heap), given \in Bools :
               (Len(components) >= 1 /\ Whitelisted(heap, components)) =>
                   /\ \A c \in {-1, 16777216} :
                          RangeError(Container_init(heap, components, Some(c), given,
                                                    IdArg(given)))
                   /\ \A accent_color \in {None, Some(0), Some(16777215)} :
                          Container_init(heap, components, accent_color, given,
                                         IdArg(given)).exc = ""
        /\ \A spacing \in Spacings, given \in Bools :
               LET res == Separator_init(~given, spacing, IdArg(given))
               IN IF spacing \in {PyInt(1), PyInt(2)} THEN res.exc = ""
                  ELSE RangeError(res)

\* C9: when a check of a constructor fails, no node comes of the call, no
\* attribute of the object under construction is set, and the objects
\* built before are as they were.
AtomicConstruction ==
    [][(last'.op \in Classes /\ last'.exc # "")
           => (heap' = heap /\ last'.self = Empty /\ last'.ref = 0)]_vars

\* the last check of Section.__init__ has failed, nodes being there already
AtomicConstructionWitness ==
    /\ last.op = "Section"
    /\ last.msg = "Accessory must be either a Button or Thumbnail instance"
    /\ last.self = Empty
    /\ last.ref = 0
    /\ \E r \in Nodes : heap[r].kind = "TextDisplay"

\* payload[key] is there exactly when present, and is value then
Key(payload, key, present, value) ==
    /\ key \in DOMAIN payload <=> present
    /\ present => payload[key] = value

\* C10: in the output of to_dict the key of an optional field is absent
\* exactly when the field has its default (id, description, accessory and
\* accent_color absent, spoiler false, divider true, spacing 1), and
\* otherwise it is present with the value of the field.
OmitsDefaults ==
    /\ (last.op = "to_dict" /\ last.exc = "") =>
         LET kind == heap[last.ref].kind
             a == heap[last.ref].attrs
             d == last.ret
         IN /\ kind \in {"TextDisplay", "Thumbnail", "File", "Separator", "Section",
                         "MediaGallery", "Container"}
                  => Key(d, "id", a.id # None, a.id[1])
            /\ kind \in {"Thumbnail", "MediaGalleryItem"}
                  => Key(d, "description", a.description # None, a.description[1])
            /\ kind \in {"Thumbnail", "MediaGalleryItem", "File", "Container"}
                  => Key(d, "spoiler", a.spoiler # FALSE, a.spoiler)
            /\ kind = "Separator"
                  => /\ Key(d, "divider", a.divider # TRUE, a.divider)
                     /\ Key(d, "spacing", a.spacing # PyInt(1), a.spacing)
            /\ kind = "Section"
                  => Key(d, "accessory", a.accessory # None,
                         to_dict(heap, a.accessory[1], RecursionLimit(heap)).val)
            /\ kind = "Container"
                  => Key(d, "accent_color", a.accent_color # None, a.accent_color[1])
    \* Container.to_dict on the attributes a Container would hold: a fact of
    \* the function, the same in every state, evaluated in the first
    /\ heap = <<>> =>
         \A accent_color \in {None, Some(0)}, spoiler \in Bools, id \in {None, Some(0)} :
           LET a == [components |-> <<>>, accent_color |-> accent_color,
                     spoiler |-> spoiler, id |-> id]
               d == Container_to_dict(a, <<>>).val
           IN /\ Key(d, "accent_color", accent_color # None, accent_color[1])
              /\ Key(d, "spoiler", spoiler # FALSE, spoiler)
              /\ Key(d, "id", id # None, id[1])

\* a Separator without divider, with spacing 2 and id 0 has been serialized
OmitsDefaultsWitness ==
    /\ last.op = "to_dict"
    /\ heap[last.ref].kind = "Separator"
    /\ heap[last.ref].attrs.id = Some(0)
    /\ last.ret = [type |-> 14, divider |-> FALSE, spacing |-> PyInt(2), id |-> 0]

\* C11: the 'components' array of the payload of a Section and of a
\* Container, and the 'items' array of the payload of a MediaGallery, has
\* the length of the stored list, and its i-th element is the payload of
\* the i-th stored child.
PreservesOrder ==
    /\ (last.op = "to_dict" /\ last.exc = "") =>
         LET a == heap[last.ref].attrs
             d == last.ret
             name == ListAttr(heap[last.ref].kind)
         IN name # "" =>
              /\ Len(d[name]) = Len(a[name])
              /\ \A i \in 1..Len(a[name]) :
                     d[name][i] = to_dict(heap, a[name][i], RecursionLimit(heap)).val
    \* no Container is built: Container.to_dict on the attributes a Container
    \* of the objects built would hold
    /\ CanBuild =>
         \A components \in ContainerLists(heap) :
             (\A i \in 1..Len(components) : components[i] \in Nodes) =>
                 LET a == [components |-> components, accent_color |-> None,
                           spoiler |-> FALSE, id |-> None]
                     rs == [i \in 1..Len(components) |->
                               to_dict(heap, components[i], RecursionLimit(heap))]
                     d == Container_to_dict(a, rs).val
                 IN /\ Len(d.components) = Len(components)
                    /\ \A i \in 1..Len(components) : d.components[i] = rs[i].val

\* a Section of two TextDisplay objects with different payloads has been
\* serialized
PreservesOrderWitness ==
    /\ last.op = "to_dict"
    /\ heap[last.ref].kind = "Section"
    /\ Len(last.ret.components) = 2
    /\ last.ret.components[1] # last.ret.components[2]
    /\ last.ret.components[1] = TextDisplay_to_dict(heap[heap[last.ref].attrs.components[1]].attrs)

\* The wire shape of each kind: the tag, the keys that are always there and
\* the keys that may be there.
WireSchema(kind) ==
    CASE kind = "TextDisplay" ->
           [tag |-> 10, required |-> {"type", "content"}, optional |-> {"id"}]
      [] kind = "Thumbnail" ->
           [tag |-> 11, required |-> {"type", "media"},
            optional |-> {"description", "spoiler", "id"}]
      [] kind = "MediaGallery" ->
           [tag |-> 12, required |-> {"type", "items"}, optional |-> {"id"}]
      [] kind = "File" ->
           [tag |-> 13, required |-> {"type", "file"}, optional |-> {"spoiler", "id"}]
      [] kind = "Separator" ->
           [tag |-> 14, required |-> {"type"}, optional |-> {"divider", "spacing", "id"}]
      [] kind = "Section" ->
           [tag |-> 9, required |-> {"type", "components"}, optional |-> {"accessory", "id"}]
      [] kind = "Container" ->
           [tag |-> 17, required |-> {"type", "components"},
            optional |-> {"accent_color", "spoiler", "id"}]

\* payload d of an object of the kind, with attributes a, has the wire shape
MatchesSchema(kind, a, d) ==
    LET schema == WireSchema(kind)
    IN /\ schema.required \subseteq DOMAIN d
       /\ DOMAIN d \subseteq schema.required \cup schema.optional
       /\ d.type = schema.tag
       /\ kind = "TextDisplay" => d.content = a.content
       /\ kind = "Thumbnail" => d.media = [url |-> a.media_url]
       /\ kind = "File" => d.file = [url |-> <<"attachment://", a.filename>>]
       /\ kind \in {"Section", "Container"} => Len(d.components) = Len(a.components)
       /\ kind = "MediaGallery" =>
              /\ Len(d.items) = Len(a.items)
              /\ \A i \in 1..Len(d.items) :
                     /\ "media" \in DOMAIN d.items[i]
                     /\ DOMAIN d.items[i] \subseteq {"media", "description", "spoiler"}

\* the payload of every serialized object has the wire shape of its kind
PayloadsMatchSchema ==
    (/\ last.op = "to_dict"
     /\ last.exc = ""
     /\ heap[last.ref].kind \in Classes \ {"MediaGalleryItem"})
        => MatchesSchema(heap[last.ref].kind, heap[last.ref].attrs, last.ret)

\* Container(components=[Section(components=[TextDisplay(content="hi")])],
\*           accent_color=0x5865F2) is built and serializes to the payload of
\* the example
ExampleSerializes ==
    CanBuild =>
        \A s \in Nodes :
            (/\ heap[s].kind = "Section"
             /\ heap[s].attrs.accessory = None
             /\ heap[s].attrs.id = None
             /\ Len(heap[s].attrs.components) = 1
             /\ heap[heap[s].attrs.components[1]].attrs = [content |-> "hi", id |-> None])
                =>
                LET res == Container_init(heap, <<s>>, Some(5793266), FALSE, None)
                IN /\ res.exc = ""
                   /\ Container_to_dict(res.self,
                                        <<to_dict(heap, s, RecursionLimit(heap))>>).val
                        = [type |-> 17,
                           components |-> <<[type |-> 9,
                                             components |-> <<[type |-> 10,
                                                               content |-> "hi"]>>]>>,
                           accent_color |-> 5793266]

\* C12: the payload of every validly constructed node has the tag of its
\* kind, every required field of the kind and no key outside the kind's
\* schema, and the Container of the example serializes to exactly
\* {type:17, components:[{type:9, components:[{type:10, content:"hi"}]}],
\* accent_color:5793266}.
MatchesWireSchema == PayloadsMatchSchema /\ ExampleSerializes

-----------------------------------------------------------------------------
(* Calls of to_dict under way at the same time.  A call runs in frames,    *)
(* one for each to_dict it has entered and not left; a frame holds the     *)
(* object and the payloads of the children collected so far, both local    *)
(* to the call.  A step of a call enters the to_dict of the next child or  *)
(* leaves the innermost frame with its payload.  overlapped records that   *)
(* the call has made a step while another call was under way.  Objects    *)
(* are built while no call of to_dict is under way.                        *)

\* the objects whose to_dict a to_dict calls, in the order of the calls
CallOrder(h, r) ==
    LET kind == h[r].kind
        self == h[r].attrs
    IN CASE kind = "Section" ->
              self.components
                  \o (IF IsNone(self.accessory) THEN <<>> ELSE <<self.accessory[1]>>)
         [] kind = "Container" -> self.components
         [] kind = "MediaGallery" -> self.items
         [] OTHER -> <<>>

\* to_dict entered on an object: nothing collected yet
Frame(r) == [ref |-> r, done |-> <<>>]

\* a to_dict that keeps the payload it built last in the module and
\* returns it again
Leave_cached(h, frame) ==
    IF \E u \in Threads : threads[u].state = "done"
    THEN threads[CHOOSE u \in Threads : threads[u].state = "done"].result
    ELSE Value(External_to_dict(h[frame.ref].kind))

\* the frame's to_dict returns: its payload, from the attributes of its
\* object and the payloads collected
Leave(h, frame) ==
    LET kind == h[frame.ref].kind
        self == h[frame.ref].attrs
        done == frame.done
    IN CASE kind = "TextDisplay" -> Value(TextDisplay_to_dict(self))
         [] kind = "Thumbnail" -> Value(Thumbnail_to_dict(self))
         [] kind = "MediaGalleryItem" -> Value(MediaGalleryItem_to_dict(self))
         [] kind = "File" -> Value(File_to_dict(self))
         [] kind = "Separator" -> Value(Separator_to_dict(self))
         [] kind = "Section" ->
              Section_to_dict(self, SubSeq(done, 1, Len(self.components)),
                              IF IsNone(self.accessory) THEN Error("")
                              ELSE done[Len(done)])
         [] kind = "Container" -> Container_to_dict(self, done)
         [] kind = "MediaGallery" -> MediaGallery_to_dict(self, done)
         [] OTHER -> Value(External_to_dict(kind))

\* no call of to_dict is under way and the caller has objects left to build
CanBuildConc ==
    /\ Len(heap) < ConcNodes
    /\ \A t \in Threads : threads[t].state = "idle"

\* thread t calls obj.to_dict()
Call(t) ==
    /\ last = Idle
    /\ threads[t].state = "idle"
    /\ \E r \in 1..Len(heap) :
           threads' = [threads EXCEPT ![t] =
                          [state |-> "running", root |-> r, stack |-> <<Frame(r)>>,
                           result |-> Value(Empty), overlapped |-> FALSE]]
    /\ UNCHANGED <<heap, last, mutations>>

\* the call, in state thread, ends with res
End(thread, res) == [thread EXCEPT !.state = "done", !.stack = <<>>, !.result = res]

\* one step of the call of thread t
Step(t) ==
    /\ threads[t].state = "running"
    /\ LET stack == threads[t].stack
           n == Len(stack)
           top == stack[n]
           order == CallOrder(heap, top.ref)
           others == \E u \in Threads \ {t} : threads[u].state = "running"
       IN threads' = [threads EXCEPT ![t].overlapped = @ \/ others, ![t] =
            IF Len(top.done) < Len(order)
            THEN LET child == order[Len(top.done) + 1]
                 IN IF child \notin 1..Len(heap) THEN End(@, Error("AttributeError"))
                    ELSE IF n >= RecursionLimit(heap) THEN End(@, Error("RecursionError"))
                    ELSE [@ EXCEPT !.stack = Append(stack, Frame(child))]
            ELSE LET res == Leave(heap, top)
                 IN IF n = 1 \/ res.exc # "" THEN End(@, res)
                    ELSE [@ EXCEPT !.stack =
                             [SubSeq(stack, 1, n - 1) EXCEPT
                                 ![n - 1].done = Append(@, res)]]]
    /\ UNCHANGED <<heap, last, mutations>>

\* the caller of thread t takes the payload
Taken(t) ==
    /\ threads[t].state = "done"
    /\ threads' = [threads EXCEPT ![t] = NoCall]
    /\ UNCHANGED <<heap, last, mutations>>

NextConc ==
    \/ TakeResult
    \/ CanBuildConc /\ NewTextDisplay
    \/ CanBuildConc /\ NewThumbnail
    \/ CanBuildConc /\ NewMediaGalleryItem
    \/ CanBuildConc /\ NewFile
    \/ CanBuildConc /\ NewSeparator
    \/ CanBuildConc /\ NewExternal
    \/ CanBuildConc /\ NewSection
    \/ CanBuildConc /\ NewMediaGallery
    \/ CanBuildConc /\ NewContainer
    \/ \E t \in Threads : Call(t)
    \/ \E t \in Threads : Step(t)
    \/ \E t \in Threads : Taken(t)

SpecConc == Init /\ [][NextConc]_vars

-----------------------------------------------------------------------------
(* Calls with keyword arguments, as the examples make them, and the        *)
(* command v2media of examples/components_v2/media_and_files.py.           *)

\* the keyword-only parameters of __init__, and those without a default
Signature(cls) ==
    CASE cls = "TextDisplay" ->
           [params |-> {"content", "id"}, required |-> {"content"}]
      [] cls = "Section" ->
           [params |-> {"components", "accessory", "id"}, required |-> {"components"}]
      [] cls = "MediaGallery" ->
           [params |-> {"items", "id"}, required |-> {"items"}]
      [] cls = "Separator" ->
           [params |-> {"divider", "spacing", "id"}, required |-> {}]
      [] cls = "File" ->
           [params |-> {"filename", "spoiler", "id"}, required |-> {"filename"}]
      [] cls = "Container" ->
           [params |-> {"components", "accent_color", "spoiler", "id"},
            required |-> {"components"}]

\* the argument passed for a parameter, or the parameter's default
Arg(kwargs, name, default) == IF name \in DOMAIN kwargs THEN kwargs[name] ELSE default

\* cls(**kwargs): the interpreter binds the keywords to the parameters of
\* __init__, then the body runs
Invoke(h, cls, kwargs) ==
    IF ~(DOMAIN kwargs \subseteq Signature(cls).params)
    THEN Raise("TypeError", "__init__() got an unexpected keyword argument", Empty)
    ELSE IF ~(Signature(cls).required \subseteq DOMAIN kwargs)
    THEN Raise("TypeError", "__init__() missing required keyword-only argument", Empty)
    ELSE CASE cls = "TextDisplay" ->
                TextDisplay_init(kwargs.content, Arg(kwargs, "id", None))
           [] cls = "Section" ->
                Section_init(h, kwargs.components, Arg(kwargs, "accessory", None),
                             Arg(kwargs, "id", None))
           [] cls = "MediaGallery" ->
                MediaGallery_init(h, kwargs.items, Arg(kwargs, "id", None))
           [] cls = "Separator" ->
                Separator_init(Arg(kwargs, "divider", TRUE),
                               Arg(kwargs, "spacing", PyInt(SMALL)),
                               Arg(kwargs, "id", None))
           [] cls = "File" ->
                File_init(kwargs.filename, Arg(kwargs, "spoiler", FALSE),
                          Arg(kwargs, "id", None))
           [] cls = "Container" ->
                Container_init(h, kwargs.components, Arg(kwargs, "accent_color", None),
                               Arg(kwargs, "spoiler", FALSE), Arg(kwargs, "id", None))

\* an argument written as a literal, and one written as a list of variables
Lit(v) == [names |-> <<>>, val |-> v]
ListOf(names) == [names |-> names, val |-> <<>>]

\* the assignments of v2media that call the classes of the module, in
\* order; the elements of the list passed as media are dicts
v2media ==
    <<[var |-> "header", cls |-> "TextDisplay",
       kwargs |-> [content |-> Lit("# Media Gallery Example")]],
      [var |-> "header_section", cls |-> "Section",
       kwargs |-> [components |-> ListOf(<<"header">>)]],
      [var |-> "gallery", cls |-> "MediaGallery",
       kwargs |-> [media |-> Lit(<<0, 0, 0>>)]],
      [var |-> "gallery_text", cls |-> "TextDisplay",
       kwargs |-> [content |-> Lit("Here's a gallery of images:")]],
      [var |-> "gallery_section", cls |-> "Section",
       kwargs |-> [components |-> ListOf(<<"gallery_text">>)]],
      [var |-> "separator", cls |-> "Separator",
       kwargs |-> [spacing |-> Lit(PyStr("medium"))]],
      [var |-> "file_component", cls |-> "File",
       kwargs |-> [filename |-> Lit("document.pdf")]],
      [var |-> "file_text", cls |-> "TextDisplay",
       kwargs |-> [content |-> Lit("Here's an attached document:")]],
      [var |-> "file_section", cls |-> "Section",
       kwargs |-> [components |-> ListOf(<<"file_text">>)]],
      [var |-> "container", cls |-> "Container",
       kwargs |-> [components |-> ListOf(<<"header_section", "gallery_section", "gallery",
                                           "separator", "file_section", "file_component">>),
                   accent_color |-> Lit(Some(5793266))]]>>

\* the values of the arguments, the variables looked up in the locals
Evaluate(locals, kwargs) ==
    [k \in DOMAIN kwargs |->
        IF kwargs[k].names = <<>> THEN kwargs[k].val
        ELSE [i \in 1..Len(kwargs[k].names) |-> locals[kwargs[k].names[i]]]]

\* The statements from the i-th on, run on heap h with the local variables
\* locals: the first call that raises ends the command.
RECURSIVE Run(_, _, _, _)
Run(h, locals, statements, i) ==
    IF i > Len(statements) THEN [exc |-> "", msg |-> "", at |-> 0, heap |-> h]
    ELSE LET st == statements[i]
             res == Invoke(h, st.cls, Evaluate(locals, st.kwargs))
         IN IF res.exc # ""
            THEN [exc |-> res.exc, msg |-> res.msg, at |-> i, heap |-> h]
            ELSE Run(Append(h, [kind |-> st.cls, attrs |-> res.self]),
                     (st.var :> Len(h) + 1) @@ locals, statements, i + 1)

\* C14: every constructor call of v2media succeeds in sequence, so the
\* Container of the example is produced.
MediaExampleBuilds ==
    LET end == Run(heap, Empty, v2media, 1)
    IN /\ end.exc = ""
       /\ end.heap[Len(end.heap)].kind = "Container"

-----------------------------------------------------------------------------
\* the message of the first check that fails, "" when none fails
FirstFailing(checks) ==
    LET failing == {i \in 1..Len(checks) : checks[i].fails}
    IN IF failing = {} THEN ""
       ELSE checks[CHOOSE i \in failing : \A j \in failing : i <= j].msg

\* the call ends as the first failing check says, and returns when none fails
EndsAs(res, checks) ==
    /\ res.msg = FirstFailing(checks)
    /\ res.exc = "" <=> FirstFailing(checks) = ""

\* Section: empty list, more than 3 components, a component that is no
\* TextDisplay, invalid accessory
SectionOrder ==
    CanBuild =>
        \A components \in SectionLists(heap), accessory \in Accessories(heap),
           given \in Bools :
            EndsAs(Section_init(heap, components, accessory, IdArg(given)),
                   <<[fails |-> Len(components) = 0,
                      msg |-> "Section must contain at least one text component"],
                     [fails |-> Len(components) > 3,
                      msg |-> "Section can only contain up to 3 text components"],
                     [fails |-> ~AllOfKind(heap, components, {"TextDisplay"}),
                      msg |-> "All components must be TextDisplay instances"],
                     [fails |-> /\ accessory # None
                                /\ KindOf(heap, accessory[1]) \notin {"Button", "Thumbnail"},
                      msg |-> "Accessory must be either a Button or Thumbnail instance"]>>)

\* MediaGallery: empty list, more than 10 items, an element that is no
\* MediaGalleryItem
MediaGalleryOrder ==
    CanBuild =>
        \A items \in GalleryLists(heap), given \in Bools :
            EndsAs(MediaGallery_init(heap, items, IdArg(given)),
                   <<[fails |-> Len(items) = 0,
                      msg |-> "MediaGallery must contain at least one item"],
                     [fails |-> Len(items) > 10,
                      msg |-> "MediaGallery can only contain up to 10 items"],
                     [fails |-> ~AllOfKind(heap, items, {"MediaGalleryItem"}),
                      msg |-> "All items must be MediaGalleryItem instances"]>>)

\* Container: empty list, a child outside the whitelist, accent_color out
\* of range; the elements are objects built before
ContainerOrder ==
    CanBuild =>
        \A components \in ContainerLists(heap), accent_color \in Colors, given \in Bools :
            (\A i \in 1..Len(components) : components[i] \in Nodes) =>
                EndsAs(Container_init(heap, components, accent_color, given, IdArg(given)),
                       <<[fails |-> Len(components) = 0,
                          msg |-> "Container must contain at least one component"],
                         [fails |-> ~Whitelisted(heap, components),
                          msg |-> "All components must be one of: ActionRow, TextDisplay, Section, MediaGallery, Separator, or File"],
                         [fails |-> ~ColorOk(accent_color),
                          msg |-> "accent_color must be between 0x000000 and 0xFFFFFF"]>>)

\* C15: the checks of a constructor run in a fixed order and the first that
\* fails gives the error: the count before the class, the class before the
\* range, for Section, Container and MediaGallery.
ValidationOrder == SectionOrder /\ MediaGalleryOrder /\ ContainerOrder

====
